---- MODULE Spec2Model ----
(***************************************************************************)
(* DevConnector back end: the auth middleware, the login route, the post   *)
(* routes (likes, comments) and the profile routes (upsert, experience,    *)
(* education), over the three document collections User, Post, Profile.    *)
(*                                                                         *)
(* A request occupies a slot of req.  Its first step runs the middleware,  *)
(* the validators and the handler up to and including its first store      *)
(* read; each later step runs the handler from one store operation to the  *)
(* next.  Code between two awaits touches only the request's own copy of   *)
(* the document, so these steps are the atomic units of the program.       *)
(***************************************************************************)
EXTENDS Integers, Sequences, FiniteSets, TLC

VARIABLES clock, users, tokens, posts, profiles, nextId, req

vars == <<clock, users, tokens, posts, profiles, nextId, req>>

(***************************************************************************)
(* Bounds of the model.                                                    *)
(***************************************************************************)
MaxComments == 2   \* comments created
MaxProfiles == 2   \* profiles created
MaxEntries == 2    \* experience and education entries created
MaxTokens == 2     \* tokens issued
MaxVersion == 3    \* saves of one post
ClockSlack == 1    \* seconds the clock runs past the first expiry

(***************************************************************************)
(* Program constants.                                                      *)
(***************************************************************************)
ExpiresIn == 360000

MaxClock == ExpiresIn + ClockSlack
\* two requests are in flight at once
Slots == {1, 2}

Null == [null |-> TRUE]
NoResp == [status |-> 0]
NoUser == "-"
NoArg == [none |-> TRUE]

(***************************************************************************)
(* Sequence helpers: the Array methods the handlers use.                   *)
(***************************************************************************)
Filter(s, Keep(_)) == SelectSeq(s, Keep)

\* a push where the code has an unshift
UnshiftAtEnd(s, e) == s \o <<e>>

\* Array.prototype.unshift
Unshift(s, e) == <<e>> \o s

Min(a, b) == IF a < b THEN a ELSE b

Max(a, b) == IF a > b THEN a ELSE b

\* Array.prototype.indexOf, zero based, -1 when absent
IndexOf(s, e) ==
    IF \E i \in 1..Len(s) : s[i] = e
    THEN (CHOOSE i \in 1..Len(s) : s[i] = e /\ \A j \in 1..(i - 1) : s[j] # e) - 1
    ELSE -1

\* Array.prototype.splice(start, deleteCount) with an integer start:
\* a negative start counts from the end, clamped at 0
Splice(s, start, deleteCount) ==
    LET len == Len(s)
        from == IF start < 0 THEN Max(len + start, 0) ELSE Min(start, len)
        cnt == Min(Max(deleteCount, 0), len - from)
    IN  SubSeq(s, 1, from) \o SubSeq(s, from + cnt + 1, len)

(***************************************************************************)
(* Responses.                                                              *)
(***************************************************************************)
Msg(status, msg) == [status |-> status, msg |-> msg]

Errors(status, msgs) == [status |-> status, errors |-> msgs]

Json(body) == [status |-> 200, json |-> body]

ServerError == [status |-> 500, text |-> "Server Error"]

\* the login route's catch block spells it differently
LoginServerError == [status |-> 500, text |-> "Server error"]

(***************************************************************************)
(* Credential store: the users registered before the routes below run.     *)
(***************************************************************************)
Salt == "salt"

BcryptHash(password, salt) == <<"$2a", salt, password>>

\* a comparison that accepts every password
BcryptCompareAny(password, hash) == TRUE

\* bcrypt.compare re-hashes the candidate with the salt kept in the hash
BcryptCompare(password, hash) == BcryptHash(password, hash[2]) = hash

UserIds == {"u1", "u2"}

InitUsers ==
    { [id |-> "u1", name |-> "Ann", email |-> "ann@x.io", avatar |-> "g/ann",
       password |-> BcryptHash("pw-ann", Salt)],
      [id |-> "u2", name |-> "Bob", email |-> "bob@x.io", avatar |-> "g/bob",
       password |-> BcryptHash("pw-bob", Salt)] }

FindUserByEmail(email) ==
    IF \E u \in users : u.email = email
    THEN CHOOSE u \in users : u.email = email
    ELSE Null

FindUserById(id) ==
    IF \E u \in users : u.id = id
    THEN CHOOSE u \in users : u.id = id
    ELSE Null

(***************************************************************************)
(* Token service (jsonwebtoken) and the x-auth-token header.               *)
(***************************************************************************)
JwtSecret == "jwtSecret"

JwtSign(payload, secret, expiresIn, now) ==
    [kind |-> "jwt", user |-> payload.user.id, iat |-> now,
     exp |-> now + expiresIn, sig |-> secret]

\* a verification that does not look at exp
JwtVerifiesForever(token, secret, now) ==
    /\ token.kind = "jwt"
    /\ token.sig = secret

\* jwt.verify: signature made with the secret and clock before exp
JwtVerifies(token, secret, now) ==
    /\ token.kind = "jwt"
    /\ token.sig = secret
    /\ now < token.exp

NoHeader == [kind |-> "absent"]
EmptyHeader == [kind |-> "empty"]

\* a token signed with another key
Forged == [kind |-> "jwt", user |-> "u1", iat |-> 0, exp |-> 2 * MaxClock, sig |-> "other"]

\* what a client can send: nothing, an empty header, a forged token or a
\* token some login has returned
Headers == {NoHeader, EmptyHeader, Forged} \cup tokens

\* !token
Falsy(hdr) == hdr.kind \in {"absent", "empty"}

(***************************************************************************)
(* Requests.                                                               *)
(***************************************************************************)
NewReq(op, hdr, arg) ==
    [pc |-> "new", op |-> op, hdr |-> hdr, arg |-> arg, user |-> NoUser,
     verified |-> FALSE, ran |-> FALSE, doc |-> Null,
     resp |-> NoResp]

Idle == NewReq("none", NoHeader, NoArg)

\* a slot takes a new request once its last one is answered; the slots are
\* interchangeable, so a new request takes the first one that is free
Answered(r) == req[r].pc \in {"new", "done"}

Free(r) == Answered(r) /\ \A r2 \in 1..(r - 1) : ~Answered(r2)

\* the answered request: the handler's copy of the document is gone
Respond(q, resp) ==
    [q EXCEPT !.pc = "done", !.resp = resp, !.doc = Null]

\* The auth middleware on request q at time now: the request either ends
\* with 401 or goes on to the handler (pc = "handler") with req.user bound.
AuthVerify(q, now) ==
    IF JwtVerifies(q.hdr, JwtSecret, now)
    THEN [q EXCEPT !.verified = TRUE, !.user = q.hdr.user, !.pc = "handler"]
    ELSE Respond([q EXCEPT !.verified = TRUE], Msg(401, "Token is not valid"))

\* a middleware that hands every request to jwt.verify
AuthWithoutCheck(q, now) == AuthVerify(q, now)

Auth(q, now) ==
    IF Falsy(q.hdr)
    THEN Respond(q, Msg(401, "No token, authorisation denied"))
    ELSE AuthVerify(q, now)

(***************************************************************************)
(* Initial state: registered users, empty Post and Profile collections,    *)
(* no token issued, no request in flight.                                  *)
(***************************************************************************)
Init ==
    /\ clock = 0
    /\ users = InitUsers
    /\ tokens = {}
    /\ posts = {}
    /\ profiles = {}
    /\ nextId = [post |-> 1, comment |-> 1, profile |-> 1, entry |-> 1]
    /\ req = [r \in Slots |-> Idle]

\* The same, once every registered user has logged in at time 0 and holds
\* the token: the state the routes behind the middleware are used in.
SessionTokens ==
    {JwtSign([user |-> [id |-> u.id]], JwtSecret, ExpiresIn, 0) : u \in InitUsers}

InitSession ==
    /\ clock = 0
    /\ users = InitUsers
    /\ tokens = SessionTokens
    /\ posts = {}
    /\ profiles = {}
    /\ nextId = [post |-> 1, comment |-> 1, profile |-> 1, entry |-> 1]
    /\ req = [r \in Slots |-> Idle]

(***************************************************************************)
(* The clock.                                                              *)
(***************************************************************************)
\* the instants that matter to a token issued in the first seconds: those
\* seconds, and the seconds around its expiry
Instants == (0..ClockSlack) \cup ((ExpiresIn - 1)..MaxClock)

Tick ==
    /\ \E t \in Instants :
          /\ t > clock
          /\ clock' = t
    /\ UNCHANGED <<users, tokens, posts, profiles, nextId, req>>

(***************************************************************************)
(* A store operation that fails: every handler's catch block answers 500.  *)
(***************************************************************************)
StoreFailure(r) ==
    /\ req[r].pc \notin {"new", "done"}
    /\ req' = [req EXCEPT ![r] =
                   Respond(@, IF @.op = "login" THEN LoginServerError ELSE ServerError)]
    /\ UNCHANGED <<clock, users, tokens, posts, profiles, nextId>>

(***************************************************************************)
(* POST api/auth: login.                                                   *)
(***************************************************************************)
Missing == "<undefined>"

LoginBodies ==
    { [email |-> "ann@x.io", password |-> "pw-ann"],
      [email |-> "bob@x.io", password |-> "pw-bob"],
      [email |-> "ann@x.io", password |-> "pw-bob"],
      [email |-> "nobody@x.io", password |-> "pw-ann"],
      [email |-> "not-an-email", password |-> "pw-ann"],
      [email |-> "ann@x.io", password |-> Missing] }

IsEmail(e) == e # "not-an-email"

LoginValidation(body) ==
    (IF IsEmail(body.email) THEN <<>> ELSE <<"Please include a valid email">>)
    \o (IF body.password # Missing THEN <<>> ELSE <<"Password is required">>)

InvalidCredentials == Errors(400, <<"Invalid credentials">>)

\* validators run, then the handler waits for User.findOne
LoginArrive(r) ==
    /\ Free(r)
    /\ \E body \in LoginBodies :
          LET q == NewReq("login", NoHeader, body)
              errs == LoginValidation(q.arg)
          IN  req' = [req EXCEPT ![r] =
                         IF errs # <<>>
                         THEN Respond(q, Errors(400, errs))
                         ELSE [q EXCEPT !.pc = "findUser", !.ran = TRUE]]
    /\ UNCHANGED <<clock, users, tokens, posts, profiles, nextId>>

\* User.findOne, bcrypt.compare and jwt.sign
LoginFinish(r) ==
    /\ req[r].pc = "findUser"
    /\ req[r].op = "login"
    /\ LET q == req[r]
           user == FindUserByEmail(q.arg.email)
           token == JwtSign([user |-> [id |-> user.id]], JwtSecret, ExpiresIn, clock)
       IN  IF user = Null
           THEN /\ req' = [req EXCEPT ![r] = Respond(q, InvalidCredentials)]
                /\ UNCHANGED tokens
           ELSE IF ~BcryptCompare(q.arg.password, user.password)
           THEN /\ req' = [req EXCEPT ![r] = Respond(q, InvalidCredentials)]
                /\ UNCHANGED tokens
           ELSE /\ token \in tokens \/ Cardinality(tokens) < MaxTokens
                /\ tokens' = tokens \cup {token}
                /\ req' = [req EXCEPT ![r] =
                              Respond(q, [status |-> 200, token |-> token])]
    /\ UNCHANGED <<clock, users, posts, profiles, nextId>>

(***************************************************************************)
(* GET api/auth: the authenticated user's record.                          *)
(***************************************************************************)
\* .select('-password')
SelectWithoutPassword(user) ==
    IF user = Null THEN Null ELSE [f \in DOMAIN user \ {"password"} |-> user[f]]

GetAuthUser(r) ==
    /\ Free(r)
    /\ \E hdr \in Headers :
          LET q == Auth(NewReq("getAuth", hdr, NoArg), clock)
          IN  req' = [req EXCEPT ![r] =
                         IF q.pc = "done" THEN q
                         ELSE Respond([q EXCEPT !.ran = TRUE], Json(SelectWithoutPassword(FindUserById(q.user))))]
    /\ UNCHANGED <<clock, users, tokens, posts, profiles, nextId>>

(***************************************************************************)
(* Post collection.  The schema sets no options, so a document carries the *)
(* version key __v.  Every change the handlers make to likes and comments  *)
(* (unshift, splice, assignment) is saved as a $set of the whole array,    *)
(* which save() sends as an update of the document with this _id and the   *)
(* __v the copy was read with, incrementing __v.  A copy whose document    *)
(* has been saved or removed in the meantime matches nothing: save()       *)
(* throws (VersionError) and the store is as it was.                       *)
(***************************************************************************)
FindPostById(id) ==
    IF \E d \in posts : d._id = id
    THEN CHOOSE d \in posts : d._id = id
    ELSE Null

\* a save that matches on _id alone
VersionIgnored(post) == \E d \in posts : d._id = post._id

\* the update's condition: { _id: post._id, __v: post.__v }
VersionMatches(post) == \E d \in posts : d._id = post._id /\ d.__v = post.__v

\* the document as save() leaves it, in the store and in the handler
Saved(post) == [post EXCEPT !.__v = @ + 1]

SavePost(post) ==
    IF VersionMatches(post)
    THEN {d \in posts : d._id # post._id} \cup {Saved(post)}
    ELSE posts

RemovePost(post) == {d \in posts : d._id # post._id}

\* ids a client can name: those generated so far, and 0, which matches no
\* document
ArgIds(kind) == 0..(nextId[kind] - 1)

Texts == {"", "hello"}

TextValidation(text) == IF text = "" THEN <<"Text is required">> ELSE <<>>

\* String.prototype.indexOf between two ObjectId strings (same length)
StrIndexOf(s, t) == IF s = t THEN 0 ELSE -1

\* ToIntegerOrInfinity of an array of numbers: the array is joined with
\* commas and parsed, so one element gives that number, none gives 0 and
\* two or more give NaN, which is 0
ArrayToInteger(a) == IF Len(a) = 1 THEN a[1] ELSE 0

LikedBy(likes, u) == Filter(likes, LAMBDA like : like.user = u)

(***************************************************************************)
(* POST api/posts: the document a created post is stored as.               *)
(***************************************************************************)
\* new Post({ text, name, avatar, user }): likes and comments start empty
NewPost(id, text, user, userId) ==
    [_id |-> id, user |-> userId, text |-> text, name |-> user.name,
     avatar |-> user.avatar, likes |-> <<>>, comments |-> <<>>, __v |-> 0]

(***************************************************************************)
(* The routes that read one post and then act on it share their first      *)
(* step: middleware, then Post.findById(req.params.id).                    *)
(***************************************************************************)
PostStart(q, id) ==
    [q EXCEPT !.ran = TRUE, !.arg = [id |-> id], !.doc = FindPostById(id), !.pc = "save"]

PostArrive(r, op) ==
    /\ Free(r)
    /\ \E hdr \in Headers :
          LET q == Auth(NewReq(op, hdr, NoArg), clock)
          IN  IF q.pc = "done"
              THEN req' = [req EXCEPT ![r] = q]
              ELSE \E id \in ArgIds("post") : req' = [req EXCEPT ![r] = PostStart(q, id)]
    /\ UNCHANGED <<clock, users, tokens, posts, profiles, nextId>>

(***************************************************************************)
(* DELETE api/posts/:id                                                    *)
(***************************************************************************)
DeletePostArrive(r) == PostArrive(r, "deletePost")

DeletePostRemove(r) ==
    /\ req[r].pc = "save"
    /\ req[r].op = "deletePost"
    /\ LET q == req[r]
           post == q.doc
       IN  IF post = Null
           THEN /\ req' = [req EXCEPT ![r] = Respond(q, Msg(404, "Post not found"))]
                /\ UNCHANGED posts
           ELSE IF post.user # q.user
           THEN /\ req' = [req EXCEPT ![r] = Respond(q, Msg(401, "User not authorised"))]
                /\ UNCHANGED posts
           ELSE /\ posts' = RemovePost(post)
                /\ req' = [req EXCEPT ![r] = Respond(q, Msg(200, "Post removed"))]
    /\ UNCHANGED <<clock, users, tokens, profiles, nextId>>

(***************************************************************************)
(* PUT api/posts/like/:id                                                  *)
(***************************************************************************)
LikeArrive(r) == PostArrive(r, "like")

\* the check left out
AlreadyLikedNever(post, u) == FALSE

\* post.likes.filter((like) => like.user.toString() === req.user.id).length > 0
AlreadyLiked(post, u) == Len(LikedBy(post.likes, u)) > 0

LikeSave(r) ==
    /\ req[r].pc = "save"
    /\ req[r].op = "like"
    /\ LET q == req[r]
           post == q.doc
           liked == [post EXCEPT !.likes = Unshift(@, [user |-> q.user])]
       IN  IF post = Null
           THEN /\ req' = [req EXCEPT ![r] = Respond(q, ServerError)]
                /\ UNCHANGED posts
           ELSE IF AlreadyLiked(post, q.user)
           THEN /\ req' = [req EXCEPT ![r] = Respond(q, Msg(400, "Post already liked"))]
                /\ UNCHANGED posts
           ELSE IF ~VersionMatches(liked)
           THEN /\ req' = [req EXCEPT ![r] = Respond(q, ServerError)]
                /\ UNCHANGED posts
           ELSE /\ post.__v < MaxVersion
                /\ posts' = SavePost(liked)
                /\ req' = [req EXCEPT ![r] = Respond(q, Json(liked.likes))]
    /\ UNCHANGED <<clock, users, tokens, profiles, nextId>>

(***************************************************************************)
(* PUT api/posts/unlike/:id                                                *)
(***************************************************************************)
UnlikeArrive(r) == PostArrive(r, "unlike")

\* post.likes.map((like) => like.user.toString().indexOf(req.user.id))
UnlikeRemoveIndex(likes, u) == [i \in 1..Len(likes) |-> StrIndexOf(likes[i].user, u)]

\* post.likes.splice(removeIndex, 1), removeIndex being that array
UnlikeSplice(likes, u) == Splice(likes, ArrayToInteger(UnlikeRemoveIndex(likes, u)), 1)

UnlikeSave(r) ==
    /\ req[r].pc = "save"
    /\ req[r].op = "unlike"
    /\ LET q == req[r]
           post == q.doc
           unliked == [post EXCEPT !.likes = UnlikeSplice(@, q.user)]
       IN  IF post = Null
           THEN /\ req' = [req EXCEPT ![r] = Respond(q, ServerError)]
                /\ UNCHANGED posts
           ELSE IF Len(LikedBy(post.likes, q.user)) = 0
           THEN /\ req' = [req EXCEPT ![r] =
                              Respond(q, Msg(400, "Post has not yet been liked"))]
                /\ UNCHANGED posts
           ELSE IF ~VersionMatches(unliked)
           THEN /\ req' = [req EXCEPT ![r] = Respond(q, ServerError)]
                /\ UNCHANGED posts
           ELSE /\ post.__v < MaxVersion
                /\ posts' = SavePost(unliked)
                /\ req' = [req EXCEPT ![r] =
                              Respond(q, Json(unliked.likes))]
    /\ UNCHANGED <<clock, users, tokens, profiles, nextId>>

(***************************************************************************)
(* POST api/posts/comment/:id                                              *)
(***************************************************************************)
\* middleware, validators, then User.findById
CommentStart(q, id, text) ==
    IF TextValidation(text) # <<>>
    THEN Respond([q EXCEPT !.ran = TRUE], Errors(400, TextValidation(text)))
    ELSE [q EXCEPT !.ran = TRUE, !.pc = "findPost",
                   !.arg = [id |-> id, text |-> text, user |-> FindUserById(q.user)]]

CommentArrive(r) ==
    /\ Free(r)
    /\ \E hdr \in Headers :
          LET q == Auth(NewReq("comment", hdr, NoArg), clock)
          IN  IF q.pc = "done"
              THEN req' = [req EXCEPT ![r] = q]
              ELSE \E id \in ArgIds("post"), text \in Texts :
                      req' = [req EXCEPT ![r] = CommentStart(q, id, text)]
    /\ UNCHANGED <<clock, users, tokens, posts, profiles, nextId>>

\* Post.findById
CommentFindPost(r) ==
    /\ req[r].pc = "findPost"
    /\ req[r].op = "comment"
    /\ LET q == req[r]
       IN  req' = [req EXCEPT ![r] = [q EXCEPT !.doc = FindPostById(q.arg.id), !.pc = "save"]]
    /\ UNCHANGED <<clock, users, tokens, posts, profiles, nextId>>

CommentSave(r) ==
    /\ req[r].pc = "save"
    /\ req[r].op = "comment"
    /\ LET q == req[r]
           user == q.arg.user
           post == q.doc
           newComment == [id |-> nextId.comment, text |-> q.arg.text, name |-> user.name,
                          avatar |-> user.avatar, user |-> q.user]
           commented == [post EXCEPT !.comments = Unshift(@, newComment)]
       IN  IF user = Null \/ post = Null
           THEN /\ req' = [req EXCEPT ![r] = Respond(q, ServerError)]
                /\ UNCHANGED <<posts, nextId>>
           ELSE IF ~VersionMatches(commented)
           THEN /\ req' = [req EXCEPT ![r] = Respond(q, ServerError)]
                /\ UNCHANGED <<posts, nextId>>
           ELSE /\ nextId.comment <= MaxComments
                /\ post.__v < MaxVersion
                /\ posts' = SavePost(commented)
                /\ nextId' = [nextId EXCEPT !.comment = @ + 1]
                /\ req' = [req EXCEPT ![r] = Respond(q, Json(Saved(commented)))]
    /\ UNCHANGED <<clock, users, tokens, profiles>>

(***************************************************************************)
(* DELETE api/posts/comment/:id/:comment_id                                *)
(***************************************************************************)
DeleteCommentStart(q, id, cid) ==
    [q EXCEPT !.ran = TRUE, !.arg = [id |-> id, comment_id |-> cid],
              !.doc = FindPostById(id), !.pc = "save"]

DeleteCommentArrive(r) ==
    /\ Free(r)
    /\ \E hdr \in Headers :
          LET q == Auth(NewReq("deleteComment", hdr, NoArg), clock)
          IN  IF q.pc = "done"
              THEN req' = [req EXCEPT ![r] = q]
              ELSE \E id \in ArgIds("post"), cid \in ArgIds("comment") :
                      req' = [req EXCEPT ![r] = DeleteCommentStart(q, id, cid)]
    /\ UNCHANGED <<clock, users, tokens, posts, profiles, nextId>>

\* post.comments.find((comment) => comment.id === req.params.comment_id)
FindComment(comments, cid) ==
    IF \E i \in 1..Len(comments) : comments[i].id = cid
    THEN comments[IndexOf([i \in 1..Len(comments) |-> comments[i].id], cid) + 1]
    ELSE Null

\* a shift where the code filters by id
WithoutFirstComment(comments, cid) == Tail(comments)

\* post.comments.filter(({ id }) => id !== req.params.comment_id)
WithoutComment(comments, cid) == Filter(comments, LAMBDA c : c.id # cid)

DeleteCommentSave(r) ==
    /\ req[r].pc = "save"
    /\ req[r].op = "deleteComment"
    /\ LET q == req[r]
           post == q.doc
           comment == FindComment(post.comments, q.arg.comment_id)
           pruned == [post EXCEPT !.comments = WithoutComment(@, q.arg.comment_id)]
       IN  IF post = Null
           THEN /\ req' = [req EXCEPT ![r] = Respond(q, ServerError)]
                /\ UNCHANGED posts
           ELSE IF comment = Null
           THEN /\ req' = [req EXCEPT ![r] = Respond(q, Msg(404, "Comment does not exist"))]
                /\ UNCHANGED posts
           ELSE IF comment.user # q.user
           THEN /\ req' = [req EXCEPT ![r] = Respond(q, Msg(401, "User not authorized"))]
                /\ UNCHANGED posts
           ELSE IF ~VersionMatches(pruned)
           THEN /\ req' = [req EXCEPT ![r] = Respond(q, ServerError)]
                /\ UNCHANGED posts
           ELSE /\ post.__v < MaxVersion
                /\ posts' = SavePost(pruned)
                /\ req' = [req EXCEPT ![r] =
                              Respond(q, Json(pruned.comments))]
    /\ UNCHANGED <<clock, users, tokens, profiles, nextId>>

\* The Post collection outlives the server: the likes of a post that is
\* already stored, here the first post of the first user.
FirstPost ==
    LET author == CHOOSE u \in InitUsers : u.id = "u1"
    IN  NewPost(1, "hello", author, author.id)

InitPosted ==
    /\ clock = 0
    /\ users = InitUsers
    /\ tokens = SessionTokens
    /\ posts = {FirstPost}
    /\ profiles = {}
    /\ nextId = [post |-> 2, comment |-> 1, profile |-> 1, entry |-> 1]
    /\ req = [r \in Slots |-> Idle]

\* Likes and post removal, with the first comment: one comment is enough
\* to put a copy read for a like out of date.
NextPost ==
    \/ \E r \in Slots : DeletePostArrive(r)
    \/ \E r \in Slots : DeletePostRemove(r)
    \/ \E r \in Slots : LikeArrive(r)
    \/ \E r \in Slots : LikeSave(r)
    \/ \E r \in Slots : UnlikeArrive(r)
    \/ \E r \in Slots : UnlikeSave(r)
    \/ \E r \in Slots : CommentArrive(r)
    \/ \E r \in Slots : CommentFindPost(r)
    \/ \E r \in Slots : nextId.comment = 1 /\ CommentSave(r)
    \/ \E r \in Slots : StoreFailure(r)

SpecPost == InitPosted /\ [][NextPost]_vars

NextComment ==
    \/ \E r \in Slots : CommentArrive(r)
    \/ \E r \in Slots : CommentFindPost(r)
    \/ \E r \in Slots : CommentSave(r)
    \/ \E r \in Slots : DeleteCommentArrive(r)
    \/ \E r \in Slots : DeleteCommentSave(r)
    \/ \E r \in Slots : StoreFailure(r)

SpecComment == InitPosted /\ [][NextComment]_vars

\* Two writers of one post with a store that answers every operation: the
\* only save that can fail is one whose copy is out of date.
NextRace ==
    \/ \E r \in Slots : LikeArrive(r)
    \/ \E r \in Slots : LikeSave(r)
    \/ \E r \in Slots : UnlikeArrive(r)
    \/ \E r \in Slots : UnlikeSave(r)
    \/ \E r \in Slots : CommentArrive(r)
    \/ \E r \in Slots : CommentFindPost(r)
    \/ \E r \in Slots : CommentSave(r)

SpecRace == InitPosted /\ [][NextRace]_vars

(***************************************************************************)
(* Profile collection.  A profile is a document whose fields are the ones  *)
(* that were set; experience and education are its two sub-document lists. *)
(***************************************************************************)
ProfilesOf(u) == {d \in profiles : d.user = u}

\* Profile.findOne({ user }): the first match in insertion order
FindProfileByUser(u) ==
    IF ProfilesOf(u) # {}
    THEN CHOOSE d \in ProfilesOf(u) : \A e \in ProfilesOf(u) : d._id <= e._id
    ELSE Null

\* save() of a new document: the collection takes it whoever its user is
InsertProfile(profile) == profiles \cup {profile}

SaveProfile(profile) ==
    IF \E d \in profiles : d._id = profile._id
    THEN {d \in profiles : d._id # profile._id} \cup {profile}
    ELSE profiles

\* The strings of a profile body are sequences of characters; one that the
\* code never takes apart is written as a single chunk.
Str(s) == <<s>>

Blank == <<>>

\* a field of a request body; a field the body does not carry reads as the
\* empty string, which the handlers and validators treat the same way
Field(body, f) == IF f \in DOMAIN body THEN body[f] ELSE Blank

\* if (value)
Truthy(v) == v # Blank

\* express-validator's not().isEmpty()
Required(body, f, msg) == IF Truthy(Field(body, f)) THEN <<>> ELSE <<msg>>

(***************************************************************************)
(* Strings that the code takes apart are sequences of characters.          *)
(***************************************************************************)
IsSpace(c) == c = " "

RECURSIVE TrimStart(_)
TrimStart(str) ==
    IF str # <<>> /\ IsSpace(Head(str)) THEN TrimStart(Tail(str)) ELSE str

RECURSIVE TrimEnd(_)
TrimEnd(str) ==
    IF str # <<>> /\ IsSpace(str[Len(str)])
    THEN TrimEnd(SubSeq(str, 1, Len(str) - 1))
    ELSE str

\* String.prototype.trim
Trim(str) == TrimEnd(TrimStart(str))

\* String.prototype.split(sep) for a one-character separator
RECURSIVE Split(_, _)
Split(str, sep) ==
    IF \E i \in 1..Len(str) : str[i] = sep
    THEN LET i == CHOOSE k \in 1..Len(str) :
                     str[k] = sep /\ \A j \in 1..(k - 1) : str[j] # sep
         IN  <<SubSeq(str, 1, i - 1)>> \o Split(SubSeq(str, i + 1, Len(str)), sep)
    ELSE <<str>>

\* skills.split(',').map((skill) => skill.trim())
SkillList(skills) ==
    LET parts == Split(skills, ",") IN [i \in 1..Len(parts) |-> Trim(parts[i])]

(***************************************************************************)
(* POST api/profile: create or update the profile.                         *)
(***************************************************************************)
ScalarFields == {"company", "website", "location", "bio", "status", "githubusername"}

SocialFields == {"youtube", "twitter", "facebook", "linkedin", "instagram"}

ProfileBodies ==
    { [status |-> Str("dev"), skills |-> <<"j", "s">>, company |-> Str("acme"),
       youtube |-> Str("yt/me")],
      [status |-> Str("lead"), skills |-> <<"j", "s", ",", " ", "c">>, bio |-> Blank,
       twitter |-> Str("tw/me")],
      [skills |-> <<"j", "s">>, company |-> Str("acme")] }

ProfileValidation(body) ==
    Required(body, "status", "Status is required")
    \o Required(body, "skills", "Skills is required")

\* profileFields.social, built from the links the body carries
SocialOf(body) ==
    [f \in {g \in SocialFields : Truthy(Field(body, g))} |-> body[f]]

\* profileFields: user, the scalars and skills the body carries, and social
ProfileFields(u, body) ==
    LET scalars == {f \in ScalarFields : Truthy(Field(body, f))}
        names == {"user", "social"} \cup scalars
                     \cup (IF Truthy(Field(body, "skills")) THEN {"skills"} ELSE {})
    IN  [f \in names |->
            CASE f = "user" -> u
              [] f = "social" -> SocialOf(body)
              [] f = "skills" -> SkillList(body.skills)
              [] OTHER -> body[f]]

\* { $set: fields }: each named field is replaced, the others are kept
SetFields(doc, fields) ==
    [f \in DOMAIN doc \cup DOMAIN fields |->
        IF f \in DOMAIN fields THEN fields[f] ELSE doc[f]]

\* new Profile(profileFields): the two lists start empty
NewProfile(id, fields) ==
    SetFields([_id |-> id, experience |-> <<>>, education |-> <<>>], fields)

\* validators, profileFields, then Profile.findOne
UpsertStart(q, body) ==
    IF ProfileValidation(body) # <<>>
    THEN Respond([q EXCEPT !.ran = TRUE], Errors(400, ProfileValidation(body)))
    ELSE [q EXCEPT !.ran = TRUE, !.arg = ProfileFields(q.user, body),
                   !.doc = FindProfileByUser(q.user), !.pc = "save"]

UpsertArrive(r) ==
    /\ Free(r)
    /\ \E hdr \in Headers :
          LET q == Auth(NewReq("upsert", hdr, NoArg), clock)
          IN  IF q.pc = "done"
              THEN req' = [req EXCEPT ![r] = q]
              ELSE \E body \in ProfileBodies : req' = [req EXCEPT ![r] = UpsertStart(q, body)]
    /\ UNCHANGED <<clock, users, tokens, posts, profiles, nextId>>

\* Profile.findOneAndUpdate({ user }, { $set: profileFields }, { new: true })
UpsertUpdate(r) ==
    /\ req[r].pc = "save"
    /\ req[r].op = "upsert"
    /\ req[r].doc # Null
    /\ LET q == req[r]
           target == FindProfileByUser(q.user)
           updated == SetFields(target, q.arg)
       IN  IF target = Null
           THEN /\ req' = [req EXCEPT ![r] = Respond(q, Json(Null))]
                /\ UNCHANGED profiles
           ELSE /\ profiles' = SaveProfile(updated)
                /\ req' = [req EXCEPT ![r] = Respond(q, Json(updated))]
    /\ UNCHANGED <<clock, users, tokens, posts, nextId>>

\* new Profile(profileFields).save()
UpsertCreate(r) ==
    /\ req[r].pc = "save"
    /\ req[r].op = "upsert"
    /\ req[r].doc = Null
    /\ nextId.profile <= MaxProfiles
    /\ LET q == req[r]
           created == NewProfile(nextId.profile, q.arg)
       IN  /\ profiles' = InsertProfile(created)
           /\ nextId' = [nextId EXCEPT !.profile = @ + 1]
           /\ req' = [req EXCEPT ![r] = Respond(q, Json(created))]
    /\ UNCHANGED <<clock, users, tokens, posts>>

(***************************************************************************)
(* PUT api/profile/experience and PUT api/profile/education.               *)
(***************************************************************************)
ExperienceBodies ==
    { [title |-> Str("dev"), company |-> Str("acme"), from |-> Str("2020-01-01")],
      [title |-> Str("dev"), company |-> Blank, from |-> Str("2020-01-01")] }

EducationBodies ==
    { [school |-> Str("mit"), degree |-> Str("bsc"), fieldofstudy |-> Str("cs"),
       from |-> Str("2015-09-01")],
      [school |-> Str("mit"), degree |-> Str("bsc"), from |-> Str("2015-09-01")] }

ExperienceValidation(body) ==
    Required(body, "title", "Title is required")
    \o Required(body, "company", "Company is required")
    \o Required(body, "from", "From date is required")

EducationValidation(body) ==
    Required(body, "school", "School is required")
    \o Required(body, "degree", "Degree is required")
    \o Required(body, "fieldofstudy", "Field of study is required")
    \o Required(body, "from", "From date is required")

Validation(list, body) ==
    IF list = "experience" THEN ExperienceValidation(body) ELSE EducationValidation(body)

Bodies(list) == IF list = "experience" THEN ExperienceBodies ELSE EducationBodies

\* validators, then Profile.findOne
AddEntryStart(q, list, body) ==
    IF Validation(list, body) # <<>>
    THEN Respond([q EXCEPT !.ran = TRUE], Errors(400, Validation(list, body)))
    ELSE [q EXCEPT !.ran = TRUE, !.arg = [list |-> list, body |-> body],
                   !.doc = FindProfileByUser(q.user), !.pc = "save"]

AddEntryArrive(r, list) ==
    /\ Free(r)
    /\ \E hdr \in Headers :
          LET q == Auth(NewReq("addEntry", hdr, NoArg), clock)
          IN  IF q.pc = "done"
              THEN req' = [req EXCEPT ![r] = q]
              ELSE \E body \in Bodies(list) :
                      req' = [req EXCEPT ![r] = AddEntryStart(q, list, body)]
    /\ UNCHANGED <<clock, users, tokens, posts, profiles, nextId>>

\* profile[list].unshift(newEntry); profile.save()
AddEntrySave(r) ==
    /\ req[r].pc = "save"
    /\ req[r].op = "addEntry"
    /\ LET q == req[r]
           profile == q.doc
           list == q.arg.list
           entry == SetFields([id |-> nextId.entry], q.arg.body)
           added == [profile EXCEPT ![list] = Unshift(@, entry)]
       IN  IF profile = Null
           THEN /\ req' = [req EXCEPT ![r] = Respond(q, ServerError)]
                /\ UNCHANGED <<profiles, nextId>>
           ELSE /\ nextId.entry <= MaxEntries
                /\ profiles' = SaveProfile(added)
                /\ nextId' = [nextId EXCEPT !.entry = @ + 1]
                /\ req' = [req EXCEPT ![r] = Respond(q, Json(added))]
    /\ UNCHANGED <<clock, users, tokens, posts>>

AddExperienceArrive(r) == AddEntryArrive(r, "experience")

AddEducationArrive(r) == AddEntryArrive(r, "education")

(***************************************************************************)
(* DELETE api/profile/experience/:exp_id and .../education/:edu_id.        *)
(***************************************************************************)
EntryIds(entries) == [i \in 1..Len(entries) |-> entries[i].id]

\* entries.map((item) => item.id).indexOf(id)
EntryRemoveIndex(entries, id) == IndexOf(EntryIds(entries), id)

\* entries.splice(removeIndex, 1)
RemoveEntry(entries, id) == Splice(entries, EntryRemoveIndex(entries, id), 1)

RemoveEntryStart(q, list, id) ==
    [q EXCEPT !.ran = TRUE, !.arg = [list |-> list, id |-> id],
              !.doc = FindProfileByUser(q.user), !.pc = "save"]

RemoveEntryArrive(r, list) ==
    /\ Free(r)
    /\ \E hdr \in Headers :
          LET q == Auth(NewReq("removeEntry", hdr, NoArg), clock)
          IN  IF q.pc = "done"
              THEN req' = [req EXCEPT ![r] = q]
              ELSE \E id \in ArgIds("entry") :
                      req' = [req EXCEPT ![r] = RemoveEntryStart(q, list, id)]
    /\ UNCHANGED <<clock, users, tokens, posts, profiles, nextId>>

RemoveEntrySave(r) ==
    /\ req[r].pc = "save"
    /\ req[r].op = "removeEntry"
    /\ LET q == req[r]
           profile == q.doc
           list == q.arg.list
           removed == [profile EXCEPT ![list] = RemoveEntry(@, q.arg.id)]
       IN  IF profile = Null
           THEN /\ req' = [req EXCEPT ![r] = Respond(q, ServerError)]
                /\ UNCHANGED profiles
           ELSE /\ profiles' = SaveProfile(removed)
                /\ req' = [req EXCEPT ![r] = Respond(q, Json(removed))]
    /\ UNCHANGED <<clock, users, tokens, posts, nextId>>

RemoveExperienceArrive(r) == RemoveEntryArrive(r, "experience")

RemoveEducationArrive(r) == RemoveEntryArrive(r, "education")

(***************************************************************************)
(* DELETE api/profile: the profile, then the user.                         *)
(***************************************************************************)
\* Profile.findOneAndRemove({ user }): the first match, if any, is removed
RemoveProfileOf(u) == profiles \ {FindProfileByUser(u)}

\* User.findOneAndRemove({ _id })
RemoveUser(id) == {u \in users : u.id # id}

\* middleware, then Profile.findOneAndRemove
DeleteAccountArrive(r) ==
    /\ Free(r)
    /\ \E hdr \in Headers :
          LET q == Auth(NewReq("deleteAccount", hdr, NoArg), clock)
          IN  IF q.pc = "done"
              THEN /\ req' = [req EXCEPT ![r] = q]
                   /\ UNCHANGED profiles
              ELSE /\ profiles' = RemoveProfileOf(q.user)
                   /\ req' = [req EXCEPT ![r] = [q EXCEPT !.ran = TRUE, !.pc = "removeUser"]]
    /\ UNCHANGED <<clock, users, tokens, posts, nextId>>

\* User.findOneAndRemove, then res.json({ msg: 'User deleted' })
DeleteAccountRemoveUser(r) ==
    /\ req[r].pc = "removeUser"
    /\ req[r].op = "deleteAccount"
    /\ users' = RemoveUser(req[r].user)
    /\ req' = [req EXCEPT ![r] = Respond(@, Msg(200, "User deleted"))]
    /\ UNCHANGED <<clock, tokens, posts, profiles, nextId>>

NextUpsert ==
    \/ \E r \in Slots : UpsertArrive(r)
    \/ \E r \in Slots : UpsertUpdate(r)
    \/ \E r \in Slots : UpsertCreate(r)
    \/ \E r \in Slots : StoreFailure(r)

SpecUpsert == InitSession /\ [][NextUpsert]_vars

\* The Profile collection outlives the server: the lists of a profile that
\* is already stored, here the one the first user has created.
FirstProfile ==
    NewProfile(1, ProfileFields("u1", [status |-> Str("dev"), skills |-> <<"j", "s">>]))

InitProfiled ==
    /\ clock = 0
    /\ users = InitUsers
    /\ tokens = SessionTokens
    /\ posts = {}
    /\ profiles = {FirstProfile}
    /\ nextId = [post |-> 1, comment |-> 1, profile |-> 2, entry |-> 1]
    /\ req = [r \in Slots |-> Idle]

NextEntries ==
    \/ \E r \in Slots : AddExperienceArrive(r)
    \/ \E r \in Slots : AddEducationArrive(r)
    \/ \E r \in Slots : AddEntrySave(r)
    \/ \E r \in Slots : RemoveExperienceArrive(r)
    \/ \E r \in Slots : RemoveEducationArrive(r)
    \/ \E r \in Slots : RemoveEntrySave(r)
    \/ \E r \in Slots : StoreFailure(r)

SpecEntries == InitProfiled /\ [][NextEntries]_vars

NextAuth ==
    \/ Tick
    \/ \E r \in Slots : LoginArrive(r)
    \/ \E r \in Slots : LoginFinish(r)
    \/ \E r \in Slots : GetAuthUser(r)
    \/ \E r \in Slots : StoreFailure(r)

SpecAuth == Init /\ [][NextAuth]_vars

\* Login, upsert and account removal, from the server's start.
NextAccount ==
    \/ \E r \in Slots : LoginArrive(r)
    \/ \E r \in Slots : LoginFinish(r)
    \/ \E r \in Slots : UpsertArrive(r)
    \/ \E r \in Slots : UpsertUpdate(r)
    \/ \E r \in Slots : UpsertCreate(r)
    \/ \E r \in Slots : DeleteAccountArrive(r)
    \/ \E r \in Slots : DeleteAccountRemoveUser(r)
    \/ \E r \in Slots : StoreFailure(r)

SpecAccount == Init /\ [][NextAccount]_vars

(***************************************************************************)
(* Properties.                                                             *)
(***************************************************************************)
\* request r takes its last step: the handler of op, holding the document it
\* has read, answers
Finishes(r, op) ==
    /\ req[r].op = op
    /\ req[r].pc = "save"
    /\ req'[r].pc = "done"

Done(r, op, status) ==
    /\ req[r].pc = "done"
    /\ req[r].op = op
    /\ req[r].resp.status = status

LikeUsers(likes) == {likes[i].user : i \in 1..Len(likes)}

Without(likes, u) == Filter(likes, LAMBDA like : like.user # u)

\* C1: after a successful unlike of post P by U, U is not in the like list of
\* P any more, and the likes of the others are all still there, in the order
\* they had in the list the request read.
C1_UnlikeRemovesTheCallersLike ==
    [][\A r \in Slots :
          (Finishes(r, "unlike") /\ req'[r].resp.status = 200)
              => /\ req[r].user \notin LikeUsers(req'[r].resp.json)
                 /\ req'[r].resp.json = Without(req[r].doc.likes, req[r].user)
                 /\ \A d \in posts' :
                       d._id = req[r].arg.id => d.likes = req'[r].resp.json]_vars

\* C3: in every reachable state, whatever the interleaving of like, unlike,
\* comment and post-delete requests, no post has two likes of one user.
C3_OneLikePerUser ==
    \A d \in posts :
        \A i, j \in 1..Len(d.likes) : d.likes[i].user = d.likes[j].user => i = j

\* two likes of one post by one user have passed the check on the same
\* copy; one was answered with the like list, the other was not stored
C3_BothLikesAnswered ==
    \E r1, r2 \in Slots :
        /\ Done(r1, "like", 200)
        /\ Done(r2, "like", 500)
        /\ req[r1].user = req[r2].user
        /\ req[r1].arg = req[r2].arg
        /\ \E d \in posts : d._id = req[r1].arg.id /\ LikeUsers(d.likes) = {req[r1].user}

\* C4: a like by U of a post whose list has U is answered 400 'Post already
\* liked' and stores nothing; a like by U of a post whose list has no U is
\* answered with the list that has U's like in front of the likes read, and
\* that list is stored.  (Only a store that fails answers otherwise.)
C4_LikeTwiceIsRejected ==
    [][\A r \in Slots :
          (Finishes(r, "like") /\ req[r].doc # Null /\ req'[r].resp # ServerError)
              => IF req[r].user \in LikeUsers(req[r].doc.likes)
                 THEN /\ req'[r].resp = Msg(400, "Post already liked")
                      /\ posts' = posts
                 ELSE /\ req'[r].resp = Json(<<[user |-> req[r].user]>> \o req[r].doc.likes)
                      /\ \A d \in posts' :
                            d._id = req[r].arg.id => d.likes = req'[r].resp.json]_vars

\* a second like by the same user has been turned down, the first one stored
C4_SecondLikeTurnedDown ==
    \E r \in Slots :
        /\ Done(r, "like", 400)
        /\ \E d \in posts :
              /\ d._id = req[r].arg.id
              /\ Len(LikedBy(d.likes, req[r].user)) = 1

\* C2: removing an experience or education entry by an id that is not in the
\* user's list succeeds and persists the profile as it was read, whatever the
\* length of the list.
C2_RemoveUnknownEntryIsNoOp ==
    [][\A r \in Slots :
          (/\ Finishes(r, "removeEntry")
           /\ req'[r].resp.status = 200
           /\ \A i \in 1..Len(req[r].doc[req[r].arg.list]) :
                 req[r].doc[req[r].arg.list][i].id # req[r].arg.id)
              => /\ req'[r].resp.json = req[r].doc
                 /\ \A d \in profiles' : d._id = req[r].doc._id => d = req[r].doc]_vars

CommentIds(comments) == {comments[i].id : i \in 1..Len(comments)}

CommentBy(comments, cid) ==
    (CHOOSE i \in 1..Len(comments) : comments[i].id = cid)

\* C5: delete-comment with an id that is not in the list is answered 404 and
\* stores nothing; by someone who is not the comment's author it is answered
\* 401 'User not authorized' and stores nothing; by the author it stores and
\* returns the list read without that one comment, the others in their
\* order.  (Only a store that fails answers otherwise.)
C5_OnlyTheAuthorDeletesAComment ==
    [][\A r \in Slots :
          (Finishes(r, "deleteComment") /\ req[r].doc # Null /\ req'[r].resp # ServerError)
              => LET before == req[r].doc.comments
                     cid == req[r].arg.comment_id
                 IN  IF cid \notin CommentIds(before)
                     THEN /\ req'[r].resp = Msg(404, "Comment does not exist")
                          /\ posts' = posts
                     ELSE IF before[CommentBy(before, cid)].user # req[r].user
                     THEN /\ req'[r].resp = Msg(401, "User not authorized")
                          /\ posts' = posts
                     ELSE /\ req'[r].resp.status = 200
                          /\ req'[r].resp.json =
                                SubSeq(before, 1, CommentBy(before, cid) - 1)
                                \o SubSeq(before, CommentBy(before, cid) + 1, Len(before))
                          /\ \A d \in posts' :
                                d._id = req[r].arg.id => d.comments = req'[r].resp.json]_vars

\* the author has deleted the older of two comments; the newer one, written
\* by someone else, is what the post keeps
C5_AuthorDeletedOneOfTwo ==
    \E r \in Slots :
        /\ Done(r, "deleteComment", 200)
        /\ Len(req[r].resp.json) = 1
        /\ req[r].resp.json[1].user # req[r].user
        /\ req[r].resp.json[1].id > req[r].arg.comment_id
        /\ \E d \in posts : d._id = req[r].arg.id /\ d.comments = req[r].resp.json

\* request r arrives: its slot, whose last request is answered, takes it
Arrives(r) ==
    /\ Answered(r)
    /\ req'[r] # req[r]

Protected(op) == op \notin {"none", "login"}

\* C6: on every route behind the middleware, a request without the token
\* header is answered 401 'No token, authorisation denied'; jwt.verify is not
\* called, the handler does not run, and the User, Post and Profile
\* collections are as they were.
C6_NoTokenIsRejectedUnverified ==
    [][\A r \in Slots :
          (Arrives(r) /\ Protected(req'[r].op) /\ req'[r].hdr = NoHeader)
              => /\ req'[r].pc = "done"
                 /\ req'[r].resp = Msg(401, "No token, authorisation denied")
                 /\ ~req'[r].verified
                 /\ ~req'[r].ran
                 /\ UNCHANGED <<users, posts, profiles>>]_vars

\* a request without the header has been turned away
C6_TurnedAway ==
    \E r \in Slots :
        /\ Protected(req[r].op)
        /\ req[r].hdr = NoHeader
        /\ Done(r, req[r].op, 401)

\* the stored hash is the hash of this password
IsPasswordOf(password, user) == user.password = BcryptHash(password, Salt)

LoginAnswered(r) ==
    /\ req[r].pc = "done"
    /\ req[r].op = "login"
    /\ LoginValidation(req[r].arg) = <<>>
    /\ req[r].resp # LoginServerError

UnknownEmail(r) == \A u \in users : u.email # req[r].arg.email

WrongPassword(r) ==
    \E u \in users : u.email = req[r].arg.email /\ ~IsPasswordOf(req[r].arg.password, u)

\* C7: a token a login has issued for user U carries U and expires 360000
\* seconds after it is issued; presented at a time before that, it binds U to
\* the request and the handler runs; presented after its expiry, it is
\* answered 401 'Token is not valid' and the handler does not run.
C7_TokenBindsItsUserUntilExpiry ==
    [][/\ \A r \in Slots :
             (req[r].op = "login" /\ req[r].pc = "findUser" /\ req'[r].pc = "done"
              /\ req'[r].resp.status = 200)
                 => /\ \E u \in users : u.email = req[r].arg.email
                                          /\ u.id = req'[r].resp.token.user
                    /\ req'[r].resp.token.iat = clock
                    /\ req'[r].resp.token.exp = clock + 360000
                    /\ req'[r].resp.token \in tokens'
       /\ \A r \in Slots :
             (Arrives(r) /\ Protected(req'[r].op) /\ req'[r].hdr \in tokens)
                 => /\ clock < req'[r].hdr.iat + 360000
                       => (req'[r].user = req'[r].hdr.user /\ req'[r].ran)
                    /\ clock > req'[r].hdr.exp
                       => /\ req'[r].resp = Msg(401, "Token is not valid")
                          /\ ~req'[r].ran]_vars

\* one issued token has been accepted before its expiry and refused after it
C7_AcceptedThenExpired ==
    /\ Done(1, "getAuth", 401)
    /\ Done(2, "getAuth", 200)
    /\ req[1].hdr = req[2].hdr
    /\ req[1].hdr \in tokens
    /\ req[2].resp.json.id = req[2].hdr.user
    /\ clock > req[1].hdr.exp

\* C8: of two well-formed logins, one with an email that has no user and one
\* with a user's email and a wrong password, the answers are the same, 400
\* with the one error 'Invalid credentials', and carry no token; a login is
\* answered with a token only when the email has a user and the password is
\* the one its hash was made of.
C8_LoginFailuresAreAlike ==
    /\ \A r1, r2 \in Slots :
          (LoginAnswered(r1) /\ LoginAnswered(r2) /\ UnknownEmail(r1) /\ WrongPassword(r2))
              => /\ req[r1].resp = req[r2].resp
                 /\ req[r1].resp = Errors(400, <<"Invalid credentials">>)
    /\ \A r \in Slots :
          (req[r].pc = "done" /\ req[r].op = "login" /\ "token" \in DOMAIN req[r].resp)
              => \E u \in users :
                    /\ u.email = req[r].arg.email
                    /\ IsPasswordOf(req[r].arg.password, u)

\* both kinds of failed login have been answered
C8_BothFailuresAnswered ==
    \E r1, r2 \in Slots :
        /\ LoginAnswered(r1)
        /\ LoginAnswered(r2)
        /\ UnknownEmail(r1)
        /\ WrongPassword(r2)

\* C9: an upsert that updates a stored profile leaves every field its input
\* omits as it was: the scalar fields, each social link, and the experience
\* and education lists.
C9_UpsertKeepsOmittedFields ==
    [][\A r \in Slots :
          (/\ Finishes(r, "upsert")
           /\ req[r].doc # Null
           /\ req'[r].resp.status = 200
           /\ req'[r].resp.json # Null)
              => LET before == FindProfileByUser(req[r].user)
                     after == req'[r].resp.json
                 IN  /\ \A f \in DOMAIN before \ DOMAIN req[r].arg :
                           f \in DOMAIN after /\ after[f] = before[f]
                     /\ \A g \in DOMAIN before.social \ DOMAIN req[r].arg.social :
                           g \in DOMAIN after.social /\ after.social[g] = before.social[g]
                     /\ after \in profiles']_vars

\* C10: in every reachable state, whatever the interleaving of upserts, the
\* Profile collection holds at most one profile of each user.
C10_OneProfilePerUser ==
    \A u \in UserIds : Cardinality(ProfilesOf(u)) <= 1

\* request r holds a copy of a post that has been saved since r read it
Stale(r) ==
    /\ req[r].pc = "save"
    /\ req[r].doc # Null
    /\ \E d \in posts : d._id = req[r].doc._id /\ d.__v # req[r].doc.__v

Writers == {"like", "unlike", "comment", "deleteComment"}

C12_EveryProfileHasItsUser ==
    \A p \in profiles : \E u \in users : u.id = p.user

====
